---- MODULE Spec2Model ----
(***************************************************************************)
(* Model of the staging pipeline coordinator                               *)
(*   backend/app/services/generation.py : process_staging_job              *)
(* and of the stage functions of backend/app/services/llm_service.py as    *)
(* far as the coordinator observes them (a result, or an exception).       *)
(*                                                                         *)
(* One action is one piece of the coroutine between two await points: the  *)
(* return (or raise) of the awaited call, the synchronous code after it,   *)
(* and the issue of the next awaited call.  pc[j] names the call that the  *)
(* coroutine for job j is suspended in.                                    *)
(*                                                                         *)
(* db is the persisted jobs table (what a polling client reads), sess is   *)
(* the db_job object held by the run's session.                            *)
(***************************************************************************)
EXTENDS Integers, Sequences, FiniteSets, TLC

\* ---------------------------------------------------------------- bounds
\* invocations of process_staging_job over all job ids
MaxInvocations == 3

\* ------------------------------------------------------------ the tables
\* job ids handed to process_staging_job; every id has a row in jobs
JobIds == {1, 2, 3}
\* ids of the rows of the images table
ImageIds == {1, 2}
\* Job.image_id; job 3 refers to an image that does not exist
ImageIdOf(j) == IF j = 3 THEN 9 ELSE j

\* absent values
NoTime == 0
NoUrl == <<>>
NoText == "None"

\* str(e) of the exceptions the collaborators raise.  httpx timeouts carry
\* an empty message; ValueError is the renderer's own "No image URL found".
Str(e) ==
  CASE e = "ReadTimeout" -> ""
    [] e = "APIError" -> "litellm.APIError: upstream failure"
    [] e = "ValueError" -> "No image URL found in response"
    [] e = "StorageError" -> "upload failed"
    [] e = "DBError" -> "database error"
    [] OTHER -> e

\* exceptions each awaited call can raise
AnalyzeErrors == {"ReadTimeout", "APIError"}
PlanErrors == {"APIError"}
PromptErrors == {"APIError"}
RenderErrors == {"ReadTimeout", "HTTPStatusError"}
UploadErrors == {"StorageError"}
CommitErrors == {"DBError"}

\* settings.BUCKET_RESULTS and the object name f"{job_id}.jpg"
BUCKET_RESULTS == "results"
\* variant: one object name for every job
ObjectName_Fixed(j) == <<0, ".jpg">>
ObjectName(j) == <<j, ".jpg">>
\* the URL storage_service.upload_file returns for a stored object
UrlOf(bucket, name) == <<bucket, name>>

\* a row as the API creates it
PendingJob(j) ==
  [status |-> "pending", started_at |-> NoTime, completed_at |-> NoTime,
   progress_percent |-> 0, current_step |-> NoText,
   result_url |-> NoUrl, error_message |-> NoText,
   room_type |-> "living room", style_preset |-> "scandinavian",
   fix_white_balance |-> (j = 1), wall_decorations |-> (j # 1),
   image_id |-> ImageIdOf(j)]

\* ------------------------------------------------- llm_service.py: data
\* largest side sent to the provider (llm_service.py 53-54)
MAX_DIM == 2160
\* largest side of the source images tried
MaxSide == 6000
\* sides of the source images tried
Sides == {1, 1080, MAX_DIM, MAX_DIM + 1, 3000, 4000, MaxSide}
\* formats Pillow decodes; it has no encoder for PSD
Formats == {"JPEG", "PNG", "WEBP", "GIF", "PSD"}
CanSave(fmt) == fmt # "PSD"

\* fetched bytes: what Pillow makes of them, and whether they are the bytes
\* as fetched or a re-encoding
Undecodable ==
  [decodable |-> FALSE, format |-> "none", width |-> 0, height |-> 0,
   reencoded |-> FALSE]
Picture(fmt, w, h) ==
  [decodable |-> TRUE, format |-> fmt, width |-> w, height |-> h,
   reencoded |-> FALSE]
Contents ==
  {Undecodable} \cup {Picture(f, w, h) : f \in Formats, w \in Sides, h \in Sides}

\* base64.b64encode / base64.b64decode
Base64(bytes) == <<"base64", bytes>>
B64Decode(text) == text[2]

\* settings.STORAGE_ENDPOINT, settings.STORAGE_PUBLIC_ENDPOINT, another host
STORAGE_ENDPOINT == "minio:9000"
STORAGE_PUBLIC_ENDPOINT == "localhost:9000"
OtherHost == "cdn.example.com"
\* "http://" + host + "/" + path: a URL is its host and the path segments
Url(host, path) == [host |-> host, path |-> path]
Urls ==
  {Url(h, p) : h \in {STORAGE_ENDPOINT, STORAGE_PUBLIC_ENDPOINT, OtherHost},
               p \in {<<"uploads", "room.png">>, <<"uploads", "a", "room.png">>,
                      <<"room.png">>, <<>>}}

\* image_url.startswith(prefix), lines 27-34
TargetPrefix(url) ==
  IF url.host = STORAGE_ENDPOINT THEN STORAGE_ENDPOINT
  ELSE IF url.host = STORAGE_PUBLIC_ENDPOINT THEN STORAGE_PUBLIC_ENDPOINT
  ELSE "None"

\* image_url.replace(target_prefix, "").split("/", 1), line 38
PathParts(url) ==
  IF Len(url.path) >= 2 THEN <<url.path[1], Tail(url.path)>>
  ELSE <<url.path>>

\* variant: every URL of a storage host is read from storage or not at all
FetchBytes_NoFallback(url, stored, status, content) ==
  IF TargetPrefix(url) # "None"
  THEN [io |-> IF Len(PathParts(url)) = 2
               THEN << <<"get_object_data", PathParts(url)[1], PathParts(url)[2]>> >>
               ELSE <<>>,
        raised |-> "none", content |-> content]
  ELSE [io |-> << <<"GET", url>> >>,
        raised |-> IF status = 200 THEN "none" ELSE "HTTPStatusError",
        content |-> content]

\* lines 24-47: the bytes behind the URL and the reads made for them.
\* stored: storage has the object; status: what an HTTP GET answers
FetchBytes(url, stored, status, content) ==
  LET parts == PathParts(url)
      fromStorage == TargetPrefix(url) # "None" /\ Len(parts) = 2
      reads == IF fromStorage
               THEN << <<"get_object_data", parts[1], parts[2]>> >>
               ELSE <<>>
  IN IF fromStorage /\ stored
     THEN [io |-> reads, raised |-> "none", content |-> content]
     ELSE [io |-> Append(reads, <<"GET", url>>),
           raised |-> IF status = 200 THEN "none" ELSE "HTTPStatusError",
           content |-> content]

\* Image.thumbnail((2160, 2160)): Pillow keeps the aspect ratio, rounding the
\* computed side down or up to whichever is closer, and to at least 1
Abs(n) == IF n < 0 THEN 0 - n ELSE n
Max(a, b) == IF a >= b THEN a ELSE b
CeilDiv(a, b) == (a + b - 1) \div b
Thumbnail(w, h) ==
  IF MAX_DIM >= w /\ MAX_DIM >= h THEN <<w, h>>
  ELSE IF h >= w
  THEN LET lo == (MAX_DIM * w) \div h
           hi == CeilDiv(MAX_DIM * w, h)
           x == IF Abs(MAX_DIM * w - lo * h) <= Abs(MAX_DIM * w - hi * h)
                THEN lo ELSE hi
       IN <<Max(x, 1), MAX_DIM>>
  ELSE LET lo == (MAX_DIM * h) \div w
           hi == CeilDiv(MAX_DIM * h, w)
           y == IF lo = 0 THEN lo
                ELSE IF Abs(w * lo - MAX_DIM * h) * hi <= Abs(w * hi - MAX_DIM * h) * lo
                THEN lo ELSE hi
       IN <<MAX_DIM, Max(y, 1)>>

\* lines 64-68
MediaType(fmt) ==
  IF fmt = "PNG" THEN "image/png"
  ELSE IF fmt = "WEBP" THEN "image/webp"
  ELSE "image/jpeg"

\* lines 73-77: the except clause
EncodeFallback(content) ==
  [media_type |-> "image/jpeg", image_base64 |-> Base64(content),
   width |-> 0, height |-> 0]

\* variant: the resized image is encoded but the source's size is reported
EncodeImage_SourceSize(content) ==
  IF ~content.decodable THEN EncodeFallback(content)
  ELSE IF content.width > MAX_DIM \/ content.height > MAX_DIM
  THEN IF ~CanSave(content.format) THEN EncodeFallback(content)
       ELSE [media_type |-> MediaType(content.format),
             image_base64 |-> Base64([content EXCEPT
                 !.width = Thumbnail(content.width, content.height)[1],
                 !.height = Thumbnail(content.width, content.height)[2],
                 !.reencoded = TRUE]),
             width |-> content.width, height |-> content.height]
  ELSE [media_type |-> MediaType(content.format),
        image_base64 |-> Base64(content),
        width |-> content.width, height |-> content.height]

\* lines 49-77: (media_type, image_base64, width, height) of fetched bytes
EncodeImage(content) ==
  IF ~content.decodable THEN EncodeFallback(content)
  ELSE IF content.width > MAX_DIM \/ content.height > MAX_DIM
  THEN LET size == Thumbnail(content.width, content.height)
       IN IF ~CanSave(content.format) THEN EncodeFallback(content)
          ELSE [media_type |-> MediaType(content.format),
                image_base64 |-> Base64([content EXCEPT !.width = size[1],
                                                        !.height = size[2],
                                                        !.reencoded = TRUE]),
                width |-> size[1], height |-> size[2]]
  ELSE [media_type |-> MediaType(content.format),
        image_base64 |-> Base64(content),
        width |-> content.width, height |-> content.height]

\* ---------------------------------------------- llm_service.py: prompts
\* a prompt is the sequence of its parts; a part is a piece of text, the
\* resolution directive also its numbers
Part(text) == [text |-> text, width |-> 0, height |-> 0]
Parts(prompt) == {prompt[i] : i \in DOMAIN prompt}
Count(prompt, part) == Cardinality({i \in DOMAIN prompt : prompt[i] = part})

\* line 122
PLAN_DECOR == "Include wall decorations like art, mirrors, or clocks, but ONLY those that do not require drilling into the wall"
PLAN_NO_DECOR == "Do NOT include any wall decorations or wall art."
\* lines 164, 166
WB_CORRECT == "CORRECT the white balance if the original image is too warm (yellow) or cool (blue)"
WB_PRESERVE == "STRICTLY PRESERVE the original white balance, color temperature, and lighting tint"
\* line 168
ADD_DECOR == "Add furniture and wall decor, ensuring that any wall-mounted items do not require drilling"
BARE_WALLS == "Add furniture only. Keep walls completely bare of any art or decorations."
\* line 242
RENDER_WB_PRESERVE == "CRITICAL: You MUST preserve the original white balance and color temperature of the input image."
\* line 238
RESOLUTION == "IMPORTANT: Generate the output image with the exact resolution of {width}x{height} pixels."
ResolutionDirective(w, h) == [text |-> RESOLUTION, width |-> w, height |-> h]

\* variant: the decor instruction does not look at the flag
PlanPrompt_AlwaysDecor(analysis, room_type, style_preset, wall_decorations) ==
  << Part("Based on the following room analysis:"), Part(analysis),
     Part(room_type), Part(style_preset),
     Part("Provide a detailed furniture placement plan."),
     Part(PLAN_DECOR),
     Part("Include artistic directions for the image generation step."),
     Part("The goal is to furnish the room AS IS.") >>

\* lines 122-138: the Planner's prompt
PlanPrompt(analysis, room_type, style_preset, wall_decorations) ==
  << Part("Based on the following room analysis:"), Part(analysis),
     Part(room_type), Part(style_preset),
     Part("Provide a detailed furniture placement plan."),
     Part(IF wall_decorations THEN PLAN_DECOR ELSE PLAN_NO_DECOR),
     Part("Include artistic directions for the image generation step."),
     Part("The goal is to furnish the room AS IS.") >>

\* lines 163-194: the Prompt Synthesizer's prompt
StagedImagePrompt(url, analysis, placement_plan, style_preset, fix_white_balance, wall_decorations) ==
  << Part("You MUST preserve the EXACT structure of the room"),
     Part("You MUST preserve the EXACT camera angle and perspective"),
     Part("You MUST preserve the current natural lighting direction"),
     Part(IF fix_white_balance THEN WB_CORRECT ELSE WB_PRESERVE),
     Part(IF wall_decorations THEN ADD_DECOR ELSE BARE_WALLS),
     Part("DO NOT remove or alter architectural elements."),
     Part(analysis), Part(placement_plan), Part(style_preset),
     Part("Original Image URL for reference:") >>

\* variant: the resolution directive is appended whatever the dimensions
RenderText_AlwaysResolution(prompt, enc, fix_white_balance) ==
  <<Part(prompt)>>
    \o <<ResolutionDirective(enc.width, enc.height)>>
    \o (IF ~fix_white_balance THEN <<Part(RENDER_WB_PRESERVE)>> ELSE <<>>)

\* lines 228-243: the text of the Renderer's message, for the encoded source
RenderText(prompt, enc, fix_white_balance) ==
  <<Part(prompt)>>
    \o (IF enc.width > 0 /\ enc.height > 0
        THEN <<ResolutionDirective(enc.width, enc.height)>> ELSE <<>>)
    \o (IF ~fix_white_balance THEN <<Part(RENDER_WB_PRESERVE)>> ELSE <<>>)

\* lines 232-234: the data URL of the reference image
ImagePart(enc) == <<enc.media_type, enc.image_base64>>

\* ------------------------------------- llm_service.py: provider response
\* the JSON the provider answers: choices[0].message, with or without images
NoChoices == [choices |-> <<>>]
TextOnly == [choices |-> <<[content |-> "text", images |-> <<>>, has_images |-> FALSE]>>]
EmptyImages == [choices |-> <<[content |-> "text", images |-> <<>>, has_images |-> TRUE]>>]
WithImage(url) == [choices |-> <<[content |-> "text", images |-> <<url>>, has_images |-> TRUE]>>]
\* images[0].image_url.url: a data URL or a plain one
DataUrl(bytes) == [scheme |-> "data", body |-> Base64(bytes)]
PlainUrl(bytes) == [scheme |-> "https", body |-> <<"served", bytes>>]
ProviderResponses ==
  {NoChoices, TextOnly, EmptyImages,
   WithImage(DataUrl("image_data")), WithImage(PlainUrl("image_data"))}

\* the response carries an image on choices[0].message
CarriesImage(result) ==
  /\ result.choices # <<>>
  /\ result.choices[1].has_images
  /\ result.choices[1].images # <<>>

\* variant: a response without images gives empty bytes
ParseResponse_EmptyBytes(result) ==
  IF ~CarriesImage(result)
  THEN [raised |-> "none", data |-> "", download |-> FALSE]
  ELSE [raised |-> "none", data |-> "image_data", download |-> FALSE]

\* lines 272-300: the bytes generate_image returns, or what it raises;
\* download: the secondary GET of a plain URL
ParseResponse(result) ==
  IF result.choices = <<>>
  THEN [raised |-> "No choices in response", data |-> NoText, download |-> FALSE]
  ELSE LET message == result.choices[1]
           image_url == IF message.has_images /\ message.images # <<>>
                        THEN message.images[1] ELSE [scheme |-> "None", body |-> NoText]
       IN IF image_url.scheme = "None"
          THEN [raised |-> "ValueError", data |-> NoText, download |-> FALSE]
          ELSE IF image_url.scheme = "data"
          THEN [raised |-> "none", data |-> B64Decode(image_url.body), download |-> FALSE]
          ELSE [raised |-> "none", data |-> image_url.body[2], download |-> TRUE]

\* the rows of the images table
ImageRow(i) ==
  [original_url |-> IF i = 1 THEN Url(STORAGE_ENDPOINT, <<"uploads", "1.png">>)
                    ELSE Url(OtherHost, <<"room.png">>)]

NoLocals ==
  [analysis |-> NoText, placement_plan |-> NoText,
   generation_prompt |-> NoText, image_data |-> NoText]

NoCatch == [at |-> "none", e |-> "none"]

VARIABLES
  db,       \* jobs table: job id -> committed row
  sess,     \* job id -> db_job, the row object of the run's session
  pc,       \* job id -> the await the run is suspended in
  locals,   \* job id -> analysis, placement_plan, generation_prompt, image_data
  caught,   \* job id -> the exception the except clause caught, and where
  escaped,  \* job id -> the exception that left process_staging_job
  calls,    \* job id -> stage and storage calls issued in this run
  written,  \* job id -> values assigned to progress_percent in this run
  commits,  \* job id -> session.commit() calls issued in this run
  objects,  \* object storage: the (bucket, name) pairs stored
  uploads,  \* job id -> the objects this run has stored
  runs,     \* job id -> invocations so far
  images,   \* images table: image id -> row
  sent,     \* job id -> the calls of this run with their arguments
  llm       \* the llm_service function applied last, its input and result

vars == <<db, sess, pc, locals, caught, escaped, calls, written, commits,
          objects, uploads, runs, images, sent, llm>>

RECURSIVE SumOver(_, _)
SumOver(f, S) ==
  IF S = {} THEN 0
  ELSE LET x == CHOOSE y \in S : TRUE IN f[x] + SumOver(f, S \ {x})

Invocations == SumOver(runs, JobIds)

\* datetime.utcnow() read in the r-th invocation for a job: a reading that
\* differs from one invocation to the next
utcnow(r) == r

Init ==
  /\ db = [j \in JobIds |-> PendingJob(j)]
  /\ sess = [j \in JobIds |-> PendingJob(j)]
  /\ pc = [j \in JobIds |-> "idle"]
  /\ locals = [j \in JobIds |-> NoLocals]
  /\ caught = [j \in JobIds |-> NoCatch]
  /\ escaped = [j \in JobIds |-> "none"]
  /\ calls = [j \in JobIds |-> <<>>]
  /\ written = [j \in JobIds |-> <<>>]
  /\ commits = [j \in JobIds |-> 0]
  /\ objects = {}
  /\ uploads = [j \in JobIds |-> <<>>]
  /\ runs = [j \in JobIds |-> 0]
  /\ images = [i \in ImageIds |-> ImageRow(i)]
  /\ sent = [j \in JobIds |-> <<>>]
  /\ llm = [op |-> "none"]

\* ------------------------------------------------------------- helpers
\* the bytes behind an image's original_url: the upload of job 1 is a
\* 4000x3000 PNG in the storage service, that of job 2 is served by another
\* host and is no image Pillow can decode
ContentAt(url) ==
  IF url.host = OtherHost THEN Undecodable ELSE Picture("PNG", 4000, 3000)

\* variant: generate_image is called without the job's fix_white_balance
CallArgs_DefaultFlag(j, stage) ==
  LET db_job == sess[j]
      db_image == images[db_job.image_id]
  IN CASE stage = "analyze_room" ->
            [stage |-> stage, image_url |-> db_image.original_url]
       [] stage = "plan_furniture_placement" ->
            [stage |-> stage, analysis |-> locals[j].analysis,
             room_type |-> db_job.room_type,
             style_preset |-> db_job.style_preset,
             wall_decorations |-> db_job.wall_decorations]
       [] stage = "generate_staged_image_prompt" ->
            [stage |-> stage, image_url |-> db_image.original_url,
             analysis |-> locals[j].analysis,
             placement_plan |-> locals[j].placement_plan,
             style_preset |-> db_job.style_preset,
             fix_white_balance |-> db_job.fix_white_balance,
             wall_decorations |-> db_job.wall_decorations]
       [] stage = "generate_image" ->
            [stage |-> stage, prompt |-> locals[j].generation_prompt,
             image_url |-> db_image.original_url,
             fix_white_balance |-> TRUE]

\* the arguments of the stage calls: lines 43, 51-56, 64-71, 86-90
CallArgs(j, stage) ==
  LET db_job == sess[j]
      db_image == images[db_job.image_id]
  IN CASE stage = "analyze_room" ->
            [stage |-> stage, image_url |-> db_image.original_url]
       [] stage = "plan_furniture_placement" ->
            [stage |-> stage, analysis |-> locals[j].analysis,
             room_type |-> db_job.room_type,
             style_preset |-> db_job.style_preset,
             wall_decorations |-> db_job.wall_decorations]
       [] stage = "generate_staged_image_prompt" ->
            [stage |-> stage, image_url |-> db_image.original_url,
             analysis |-> locals[j].analysis,
             placement_plan |-> locals[j].placement_plan,
             style_preset |-> db_job.style_preset,
             fix_white_balance |-> db_job.fix_white_balance,
             wall_decorations |-> db_job.wall_decorations]
       [] stage = "generate_image" ->
            [stage |-> stage, prompt |-> locals[j].generation_prompt,
             image_url |-> db_image.original_url,
             fix_white_balance |-> db_job.fix_white_balance]

\* lines 228-254: what generate_image posts to the provider
RenderRequest(args) ==
  LET enc == EncodeImage(ContentAt(args.image_url))
  IN [stage |-> "openrouter",
      text |-> RenderText(args.prompt, enc, args.fix_white_balance),
      image |-> ImagePart(enc)]

\* lines 94-99: the arguments of storage_service.upload_file
UploadArgs(j) ==
  [stage |-> "upload_file", bucket |-> BUCKET_RESULTS,
   name |-> ObjectName(j), data |-> locals'[j].image_data,
   content_type |-> "image/jpeg"]

\* variant: the lookup without the join on the image
RecordFound_NoJoin(j) == j \in DOMAIN db

\* select(Job, Image).join(...).where(Job.id == job_id); one_or_none()
RecordFound(j) == j \in DOMAIN db /\ db[j].image_id \in ImageIds

\* no run of job j is in flight
Ended(j) == pc[j] \in {"idle", "returned", "raised"}

\* variant: the except clause also resets the progress
Handler_ResetsProgress(job, e) ==
  [job EXCEPT !.status = "error", !.error_message = Str(e),
              !.progress_percent = 0]

\* the except clause: lines 110-113, then the commit of line 114 is issued
Handler(job, e) ==
  [job EXCEPT !.status = "error", !.error_message = Str(e)]

\* what the session holds after a commit that raised: the pending changes
\* are either kept or discarded by the rollback
AfterFailedCommit(j) == {sess[j], db[j]}

\* an awaited stage call of the try block raised e: control enters the handler
Raise(j, at, e) ==
  /\ sess' = [sess EXCEPT ![j] = Handler(sess[j], e)]
  /\ caught' = [caught EXCEPT ![j] = [at |-> at, e |-> e]]
  /\ commits' = [commits EXCEPT ![j] = @ + 1]
  /\ pc' = [pc EXCEPT ![j] = "commit_error"]
  /\ UNCHANGED <<db, locals, escaped, calls, written, objects, uploads, runs, images, sent, llm>>

\* a commit of the try block raised e: control enters the handler
CommitRaise(j, at, e) ==
  /\ \E base \in AfterFailedCommit(j) :
       sess' = [sess EXCEPT ![j] = Handler(base, e)]
  /\ caught' = [caught EXCEPT ![j] = [at |-> at, e |-> e]]
  /\ commits' = [commits EXCEPT ![j] = @ + 1]
  /\ pc' = [pc EXCEPT ![j] = "commit_error"]
  /\ UNCHANGED <<db, locals, escaped, calls, written, objects, uploads, runs, images, sent, llm>>

\* variant: the stage call is issued without the commit before it
CommitThenCall_NoCommit(j, stage) ==
  /\ calls' = [calls EXCEPT ![j] = Append(@, stage)]
  /\ sent' = [sent EXCEPT ![j] = Append(@, CallArgs(j, stage))]
  /\ pc' = [pc EXCEPT ![j] = stage]
  /\ UNCHANGED <<db, sess, locals, caught, escaped, written, commits, objects, uploads, runs, images, llm>>

\* variant: one session shared by all runs, its commit flushes every row
CommitThenCall_SharedSession(j, stage) ==
  /\ db' = sess
  /\ calls' = [calls EXCEPT ![j] = Append(@, stage)]
  /\ sent' = [sent EXCEPT ![j] = Append(@, CallArgs(j, stage))]
  /\ pc' = [pc EXCEPT ![j] = stage]
  /\ UNCHANGED <<sess, locals, caught, escaped, written, commits, objects, uploads, runs, images, llm>>

\* a commit returned and the stage call after it is issued
CommitThenCall(j, stage) ==
  /\ db' = [db EXCEPT ![j] = sess[j]]
  /\ calls' = [calls EXCEPT ![j] = Append(@, stage)]
  /\ sent' = [sent EXCEPT ![j] = Append(@, CallArgs(j, stage))]
  /\ pc' = [pc EXCEPT ![j] = stage]
  /\ UNCHANGED <<sess, locals, caught, escaped, written, commits, objects, uploads, runs, images, llm>>

\* a progress update and the commit after it
Progress(j, percent, step, next) ==
  /\ sess' = [sess EXCEPT ![j].progress_percent = percent,
                          ![j].current_step = step]
  /\ written' = [written EXCEPT ![j] = Append(@, percent)]
  /\ commits' = [commits EXCEPT ![j] = @ + 1]
  /\ pc' = [pc EXCEPT ![j] = next]

\* ------------------------------------------------------------- actions
\* lines 21-29: the lookup finds no record
NotFound(j) ==
  /\ Ended(j)
  /\ Invocations < MaxInvocations
  /\ ~RecordFound(j)
  /\ runs' = [runs EXCEPT ![j] = @ + 1]
  /\ pc' = [pc EXCEPT ![j] = "returned"]
  /\ caught' = [caught EXCEPT ![j] = NoCatch]
  /\ escaped' = [escaped EXCEPT ![j] = "none"]
  /\ calls' = [calls EXCEPT ![j] = <<>>]
  /\ written' = [written EXCEPT ![j] = <<>>]
  /\ commits' = [commits EXCEPT ![j] = 0]
  /\ locals' = [locals EXCEPT ![j] = NoLocals]
  /\ uploads' = [uploads EXCEPT ![j] = <<>>]
  /\ sent' = [sent EXCEPT ![j] = <<>>]
  /\ UNCHANGED <<db, sess, objects, images, llm>>

\* lines 21-38: the lookup finds the record; in_progress, 10%, commit issued
Start(j) ==
  /\ Ended(j)
  /\ Invocations < MaxInvocations
  /\ RecordFound(j)
  /\ runs' = [runs EXCEPT ![j] = @ + 1]
  /\ sess' = [sess EXCEPT ![j] =
       [db[j] EXCEPT !.status = "in_progress",
                     !.started_at = utcnow(runs[j] + 1),
                     !.progress_percent = 10,
                     !.current_step = "Analyzing room layout..."]]
  /\ written' = [written EXCEPT ![j] = <<10>>]
  /\ commits' = [commits EXCEPT ![j] = 1]
  /\ calls' = [calls EXCEPT ![j] = <<>>]
  /\ locals' = [locals EXCEPT ![j] = NoLocals]
  /\ caught' = [caught EXCEPT ![j] = NoCatch]
  /\ escaped' = [escaped EXCEPT ![j] = "none"]
  /\ pc' = [pc EXCEPT ![j] = "commit_start"]
  /\ uploads' = [uploads EXCEPT ![j] = <<>>]
  /\ sent' = [sent EXCEPT ![j] = <<>>]
  /\ UNCHANGED <<db, objects, images, llm>>

\* line 38 returns; line 43 issues analyze_room
CommitStart(j) ==
  /\ pc[j] = "commit_start"
  /\ CommitThenCall(j, "analyze_room")

\* line 38 raises: outside the try block, the exception leaves the function
CommitStartRaises(j) ==
  /\ pc[j] = "commit_start"
  /\ \E e \in CommitErrors : escaped' = [escaped EXCEPT ![j] = e]
  /\ pc' = [pc EXCEPT ![j] = "raised"]
  /\ UNCHANGED <<db, sess, locals, caught, calls, written, commits, objects, uploads, runs, images, sent, llm>>

\* line 43 returns; lines 45-47
AnalyzeRoom(j) ==
  /\ pc[j] = "analyze_room"
  /\ locals' = [locals EXCEPT ![j].analysis = "analysis"]
  /\ Progress(j, 30, "Detecting surfaces and depth...", "commit_30")
  /\ UNCHANGED <<db, caught, escaped, calls, objects, uploads, runs, images, sent, llm>>

\* variant: analyze_room swallows its exception and the pipeline goes on
AnalyzeRoomRaises_Swallowed(j) ==
  /\ pc[j] = "analyze_room"
  /\ Progress(j, 30, "Detecting surfaces and depth...", "commit_30")
  /\ UNCHANGED <<db, locals, caught, escaped, calls, objects, uploads, runs, images, sent, llm>>

\* line 43 raises (llm_service.py 110-112 re-raise); lines 110-114
AnalyzeRoomRaises(j) ==
  /\ pc[j] = "analyze_room"
  /\ \E e \in AnalyzeErrors : Raise(j, "analyze_room", e)

\* line 47 returns; line 51 issues plan_furniture_placement
Commit30(j) ==
  /\ pc[j] = "commit_30"
  /\ CommitThenCall(j, "plan_furniture_placement")

Commit30Raises(j) ==
  /\ pc[j] = "commit_30"
  /\ \E e \in CommitErrors : CommitRaise(j, "commit_30", e)

\* variant: the Planner's progress update writes 20
PlanFurniturePlacement_Writes20(j) ==
  /\ pc[j] = "plan_furniture_placement"
  /\ locals' = [locals EXCEPT ![j].placement_plan = "placement_plan"]
  /\ Progress(j, 20, "Generating furniture placement plan...", "commit_60")
  /\ UNCHANGED <<db, caught, escaped, calls, objects, uploads, runs, images, sent, llm>>

\* line 51 returns; lines 58-60
PlanFurniturePlacement(j) ==
  /\ pc[j] = "plan_furniture_placement"
  /\ locals' = [locals EXCEPT ![j].placement_plan = "placement_plan"]
  /\ Progress(j, 60, "Generating furniture placement plan...", "commit_60")
  /\ UNCHANGED <<db, caught, escaped, calls, objects, uploads, runs, images, sent, llm>>

PlanFurniturePlacementRaises(j) ==
  /\ pc[j] = "plan_furniture_placement"
  /\ \E e \in PlanErrors : Raise(j, "plan_furniture_placement", e)

\* line 60 returns; line 64 issues generate_staged_image_prompt
Commit60(j) ==
  /\ pc[j] = "commit_60"
  /\ CommitThenCall(j, "generate_staged_image_prompt")

Commit60Raises(j) ==
  /\ pc[j] = "commit_60"
  /\ \E e \in CommitErrors : CommitRaise(j, "commit_60", e)

\* variant: the Synthesizer's progress update keeps the Planner's label
GenerateStagedImagePrompt_StaleLabel(j) ==
  /\ pc[j] = "generate_staged_image_prompt"
  /\ locals' = [locals EXCEPT ![j].generation_prompt = "generation_prompt"]
  /\ Progress(j, 80, "Generating furniture placement plan...", "commit_80")
  /\ UNCHANGED <<db, caught, escaped, calls, objects, uploads, runs, images, sent, llm>>

\* line 64 returns; lines 73-75
GenerateStagedImagePrompt(j) ==
  /\ pc[j] = "generate_staged_image_prompt"
  /\ locals' = [locals EXCEPT ![j].generation_prompt = "generation_prompt"]
  /\ Progress(j, 80, "Rendering final image...", "commit_80")
  /\ UNCHANGED <<db, caught, escaped, calls, objects, uploads, runs, images, sent, llm>>

GenerateStagedImagePromptRaises(j) ==
  /\ pc[j] = "generate_staged_image_prompt"
  /\ \E e \in PromptErrors : Raise(j, "generate_staged_image_prompt", e)

\* line 75 returns; line 86 issues generate_image
Commit80(j) ==
  /\ pc[j] = "commit_80"
  /\ CommitThenCall(j, "generate_image")

Commit80Raises(j) ==
  /\ pc[j] = "commit_80"
  /\ \E e \in CommitErrors : CommitRaise(j, "commit_80", e)

\* line 86 returns; line 94 issues storage_service.upload_file
GenerateImage(j) ==
  /\ pc[j] = "generate_image"
  /\ \E result \in ProviderResponses :
       /\ ParseResponse(result).raised = "none"
       /\ locals' = [locals EXCEPT ![j].image_data = ParseResponse(result).data]
  /\ calls' = [calls EXCEPT ![j] = Append(@, "upload_file")]
  /\ sent' = [sent EXCEPT ![j] =
       @ \o <<RenderRequest(@[Len(@)]), UploadArgs(j)>>]
  /\ pc' = [pc EXCEPT ![j] = "upload_file"]
  /\ UNCHANGED <<db, sess, caught, escaped, written, commits, objects, uploads, runs, images, llm>>

\* line 86 raises: the provider answered without an image (lines 272-288)
GenerateImageNoImage(j) ==
  /\ pc[j] = "generate_image"
  /\ \E result \in ProviderResponses :
       /\ ParseResponse(result).raised # "none"
       /\ sess' = [sess EXCEPT ![j] = Handler(sess[j], ParseResponse(result).raised)]
       /\ caught' = [caught EXCEPT ![j] =
            [at |-> "generate_image", e |-> ParseResponse(result).raised]]
  /\ sent' = [sent EXCEPT ![j] = Append(@, RenderRequest(@[Len(@)]))]
  /\ commits' = [commits EXCEPT ![j] = @ + 1]
  /\ pc' = [pc EXCEPT ![j] = "commit_error"]
  /\ UNCHANGED <<db, locals, escaped, calls, written, objects, uploads, runs, images, llm>>

GenerateImageRaises(j) ==
  /\ pc[j] = "generate_image"
  /\ \E e \in RenderErrors : Raise(j, "generate_image", e)

\* line 94 returns the URL of the stored object; lines 101-106
UploadFile(j) ==
  /\ pc[j] = "upload_file"
  /\ objects' = objects \cup {<<BUCKET_RESULTS, ObjectName(j)>>}
  /\ uploads' = [uploads EXCEPT ![j] = Append(@, <<BUCKET_RESULTS, ObjectName(j)>>)]
  /\ sess' = [sess EXCEPT ![j] =
       [@ EXCEPT !.status = "completed",
                 !.progress_percent = 100,
                 !.current_step = "Final rendering complete",
                 !.completed_at = utcnow(runs[j]),
                 !.result_url = UrlOf(BUCKET_RESULTS, ObjectName(j))]]
  /\ written' = [written EXCEPT ![j] = Append(@, 100)]
  /\ commits' = [commits EXCEPT ![j] = @ + 1]
  /\ pc' = [pc EXCEPT ![j] = "commit_done"]
  /\ UNCHANGED <<db, locals, caught, escaped, calls, runs, images, sent, llm>>

UploadFileRaises(j) ==
  /\ pc[j] = "upload_file"
  /\ \E e \in UploadErrors : Raise(j, "upload_file", e)

\* line 106 returns; the function returns
CommitDone(j) ==
  /\ pc[j] = "commit_done"
  /\ db' = [db EXCEPT ![j] = sess[j]]
  /\ pc' = [pc EXCEPT ![j] = "returned"]
  /\ UNCHANGED <<sess, locals, caught, escaped, calls, written, commits, objects, uploads, runs, images, sent, llm>>

CommitDoneRaises(j) ==
  /\ pc[j] = "commit_done"
  /\ \E e \in CommitErrors : CommitRaise(j, "commit_done", e)

\* line 114 returns; the function returns
CommitError(j) ==
  /\ pc[j] = "commit_error"
  /\ db' = [db EXCEPT ![j] = sess[j]]
  /\ pc' = [pc EXCEPT ![j] = "returned"]
  /\ UNCHANGED <<sess, locals, caught, escaped, calls, written, commits, objects, uploads, runs, images, sent, llm>>

\* line 114 raises inside the except clause: the exception leaves the function
CommitErrorRaises(j) ==
  /\ pc[j] = "commit_error"
  /\ \E e \in CommitErrors : escaped' = [escaped EXCEPT ![j] = e]
  /\ pc' = [pc EXCEPT ![j] = "raised"]
  /\ UNCHANGED <<db, sess, locals, caught, calls, written, commits, objects, uploads, runs, images, sent, llm>>

process_staging_job(j) ==
  \/ NotFound(j)
  \/ Start(j)
  \/ CommitStart(j)
  \/ CommitStartRaises(j)
  \/ AnalyzeRoom(j)
  \/ AnalyzeRoomRaises(j)
  \/ Commit30(j)
  \/ Commit30Raises(j)
  \/ PlanFurniturePlacement(j)
  \/ PlanFurniturePlacementRaises(j)
  \/ Commit60(j)
  \/ Commit60Raises(j)
  \/ GenerateStagedImagePrompt(j)
  \/ GenerateStagedImagePromptRaises(j)
  \/ Commit80(j)
  \/ Commit80Raises(j)
  \/ GenerateImage(j)
  \/ GenerateImageRaises(j)
  \/ GenerateImageNoImage(j)
  \/ UploadFile(j)
  \/ UploadFileRaises(j)
  \/ CommitDone(j)
  \/ CommitDoneRaises(j)
  \/ CommitError(j)
  \/ CommitErrorRaises(j)

Next == \E j \in JobIds : process_staging_job(j)

Spec == Init /\ [][Next]_vars

\* ------------------------------------------- llm_service.py: the functions
\* one function of llm_service.py applied once to an input of the sets
\* above; llm holds the application: the input, the reads made, the result
jobvars == <<db, sess, pc, locals, caught, escaped, calls, written, commits,
             objects, uploads, runs, images, sent>>

NoEncoding ==
  [media_type |-> "None", image_base64 |-> <<>>, width |-> 0, height |-> 0]

\* lines 18-77
fetch_and_encode_image ==
  /\ llm.op = "none"
  /\ \E url \in Urls, stored \in BOOLEAN, status \in {200, 404}, content \in Contents :
    LET fetched == FetchBytes(url, stored, status, content)
    IN /\ llm' = [op |-> "_fetch_and_encode_image", image_url |-> url,
                  stored |-> stored, status |-> status, content |-> content,
                  io |-> fetched.io, raised |-> fetched.raised,
                  result |-> IF fetched.raised = "none"
                             THEN EncodeImage(fetched.content) ELSE NoEncoding]
       /\ UNCHANGED jobvars

\* lines 118-138
plan_furniture_placement ==
  /\ llm.op = "none"
  /\ \E wall_decorations \in BOOLEAN, room_type \in {"living room", "bedroom"} :
    /\ llm' = [op |-> "plan_furniture_placement",
               wall_decorations |-> wall_decorations,
               prompt |-> PlanPrompt("analysis", room_type, "scandinavian",
                                     wall_decorations)]
    /\ UNCHANGED jobvars

\* lines 151-194
generate_staged_image_prompt ==
  /\ llm.op = "none"
  /\ \E fix_white_balance \in BOOLEAN, wall_decorations \in BOOLEAN, url \in Urls :
    /\ llm' = [op |-> "generate_staged_image_prompt",
               fix_white_balance |-> fix_white_balance,
               wall_decorations |-> wall_decorations,
               prompt |-> StagedImagePrompt(url, "analysis", "placement_plan",
                             "scandinavian", fix_white_balance, wall_decorations)]
    /\ UNCHANGED jobvars

\* lines 207-300, the source image fetched
generate_image ==
  /\ llm.op = "none"
  /\ \E content \in Contents, fix_white_balance \in BOOLEAN,
     result \in ProviderResponses :
    LET enc == EncodeImage(content)
    IN /\ llm' = [op |-> "generate_image", content |-> content,
                  fix_white_balance |-> fix_white_balance,
                  encoded |-> enc,
                  text |-> RenderText("generation_prompt", enc, fix_white_balance),
                  image |-> ImagePart(enc),
                  response |-> result,
                  raised |-> ParseResponse(result).raised,
                  data |-> ParseResponse(result).data]
       /\ UNCHANGED jobvars

NextLLM ==
  \/ fetch_and_encode_image
  \/ plan_furniture_placement
  \/ generate_staged_image_prompt
  \/ generate_image

SpecLLM == Init /\ [][NextLLM]_vars

\* ------------------------------------------------------ claim vocabulary
Terminal == {"completed", "error"}
NonEmptyText(t) == t \notin {NoText, ""}
NonEmptyUrl(u) == u # NoUrl

ProgressValues == <<10, 30, 60, 80, 100>>
StageOrder == <<"analyze_room", "plan_furniture_placement",
                "generate_staged_image_prompt", "generate_image", "upload_file">>
StageCalls == {StageOrder[i] : i \in 1..5}

IsPrefix(s, t) == Len(s) <= Len(t) /\ \A i \in 1..Len(s) : s[i] = t[i]

\* a run of job j has started and is over
RunOver(j) == runs[j] > 0 /\ pc[j] \in {"returned", "raised"}
\* the step is a step of the run in flight, not the start of a new one
SameRun(j) == runs'[j] = runs[j]

\* C1: every job left in a terminal status has exactly one of result_url and
\* error_message non-empty.
C1_ExactlyOneOutcome ==
  \A j \in JobIds :
    (RunOver(j) /\ db[j].status \in Terminal) =>
      (NonEmptyUrl(db[j].result_url) # NonEmptyText(db[j].error_message))

\* C2: a run in which a stage, an image fetch or the upload raised has
\* returned normally, with status error and the stringified exception
\* committed.
C2_StageFailureReturnsNormally ==
  \A j \in JobIds :
    (RunOver(j) /\ caught[j].at \in StageCalls) =>
      /\ pc[j] = "returned"
      /\ escaped[j] = "none"
      /\ db[j].status = "error"
      /\ db[j].error_message = Str(caught[j].e)

\* C3: a run that found the job and committed in_progress leaves the persisted
\* record in a terminal status, whatever collaborator call failed.
C3_RunEndsTerminal ==
  \A j \in JobIds :
    (RunOver(j) /\ Len(calls[j]) >= 1) => db[j].status \in Terminal

\* C4: within one run the values written to progress_percent are 10, 30, 60,
\* 80, 100 in that order, the persisted progress never decreases after the
\* run's first commit, and nothing is written once a step has failed.
C4_ProgressOrdered ==
  /\ [](\A j \in JobIds : IsPrefix(written[j], ProgressValues))
  /\ [][\A j \in JobIds :
          /\ (SameRun(j) /\ pc[j] # "commit_start") =>
               db'[j].progress_percent >= db[j].progress_percent
          /\ (SameRun(j) /\ written[j] # <<>>) =>
               /\ IsPrefix(written[j], written'[j])
               /\ Len(written'[j]) <= Len(written[j]) + 1
          /\ (SameRun(j) /\ (caught[j] # NoCatch \/ escaped[j] # "none")) =>
               written'[j] = written[j]]_vars

\* a run failed in the prompt synthesizer after writing 10, 30, 60
C4_Witness ==
  \E j \in JobIds :
    /\ pc[j] = "returned"
    /\ caught[j].at = "generate_staged_image_prompt"
    /\ written[j] = <<10, 30, 60>>
    /\ db[j].progress_percent = 60

\* C5: when the lookup returns no record the run changes no Job field, issues
\* no commit, no stage call and no storage write, and returns without raising.
C5_NotFoundNoEffect ==
  \A j \in JobIds :
    (db[j].image_id \notin ImageIds) =>
      /\ db[j] = PendingJob(j)
      /\ sess[j] = PendingJob(j)
      /\ commits[j] = 0
      /\ calls[j] = <<>>
      /\ written[j] = <<>>
      /\ uploads[j] = <<>>
      /\ <<"results", <<j, ".jpg">>>> \notin objects
      /\ escaped[j] = "none"
      /\ pc[j] \in {"idle", "returned"}

\* process_staging_job was invoked for a job without image and returned
C5_Witness ==
  \E j \in JobIds :
    db[j].image_id \notin ImageIds /\ runs[j] > 0 /\ pc[j] = "returned"

\* where progress stands while a step runs
FrozenAt(at) ==
  CASE at = "analyze_room" -> 10
    [] at = "plan_furniture_placement" -> 30
    [] at = "generate_staged_image_prompt" -> 60
    [] at = "generate_image" -> 80
    [] at = "upload_file" -> 80
    [] OTHER -> 0

\* the fields of the row other than status and error_message
Rest(job) == [job EXCEPT !.status = "-", !.error_message = "-"]

\* C6: the transition to error changes only status and error_message; a
\* failure in the Analyzer leaves progress at 10, in the Planner at 30, in the
\* Prompt Synthesizer at 60, in the Renderer or the upload at 80.
C6_ErrorChangesOnlyStatusAndMessage ==
  /\ [][\A j \in JobIds :
          (caught[j] = NoCatch /\ caught'[j] # NoCatch) =>
            /\ sess'[j].status = "error"
            /\ sess'[j].error_message = Str(caught'[j].e)
            /\ Rest(sess'[j]) \in {Rest(sess[j]), Rest(db[j])}
            /\ caught'[j].at \in StageCalls =>
                 /\ Rest(sess'[j]) = Rest(sess[j])
                 /\ Rest(sess'[j]) = Rest(db[j])
                 /\ db[j].status = "in_progress"]_vars
  /\ [][\A j \in JobIds :
          (db[j].status # "error" /\ db'[j].status = "error"
             /\ caught[j].at \in StageCalls) =>
            Rest(db'[j]) = Rest(db[j])]_vars
  /\ [](\A j \in JobIds :
          (caught[j].at \in StageCalls) =>
            /\ sess[j].progress_percent = FrozenAt(caught[j].at)
            /\ db[j].progress_percent = FrozenAt(caught[j].at)
            /\ db[j].current_step = sess[j].current_step
            /\ db[j].result_url = sess[j].result_url
            /\ db[j].completed_at = sess[j].completed_at)

\* the Renderer failed and the error is committed with progress at 80
C6_Witness ==
  \E j \in JobIds :
    /\ pc[j] = "returned"
    /\ caught[j].at = "generate_image"
    /\ db[j].status = "error"
    /\ db[j].progress_percent = 80
    /\ db[j].current_step = "Rendering final image..."

\* C7: once the status is completed or error no later operation changes any
\* field of the row.
C7_TerminalImmutable ==
  [][\A j \in JobIds :
       db[j].status \in Terminal => db'[j] = db[j]]_vars

\* C8: each progress update is committed before the next stage call is
\* issued, and no commit carries two progress updates.
C8_ProgressCommittedBeforeStage ==
  /\ [](\A j \in JobIds :
          /\ pc[j] \in StageCalls =>
               /\ db[j].status = "in_progress"
               /\ db[j].progress_percent = FrozenAt(pc[j])
               /\ db[j] = sess[j])
  /\ [][\A j \in JobIds :
          (db'[j].progress_percent # db[j].progress_percent) =>
            /\ db'[j].progress_percent = written[j][Len(written[j])]
            /\ Len(written[j]) > 1 =>
                 db[j].progress_percent = written[j][Len(written[j]) - 1]]_vars

\* the Renderer's result is being uploaded while the row shows 80
C8_Witness ==
  \E j \in JobIds :
    /\ pc[j] = "upload_file"
    /\ db[j].status = "in_progress"
    /\ db[j].progress_percent = 80

\* C9: the stages are called in the order Analyzer, Planner, Prompt
\* Synthesizer, Renderer (then the upload), each at most once and only after
\* the previous one returned; after a raise nothing more is called.
C9_StagesInOrder ==
  /\ [](\A j \in JobIds :
          /\ IsPrefix(calls[j], StageOrder)
          /\ Len(calls[j]) >= 2 => locals[j].analysis # NoText
          /\ Len(calls[j]) >= 3 => locals[j].placement_plan # NoText
          /\ Len(calls[j]) >= 4 => locals[j].generation_prompt # NoText
          /\ Len(calls[j]) >= 5 => locals[j].image_data # NoText
          /\ pc[j] \in StageCalls => calls[j][Len(calls[j])] = pc[j])
  /\ [][\A j \in JobIds :
          (SameRun(j) /\ (caught[j] # NoCatch \/ escaped[j] # "none")) =>
            calls'[j] = calls[j]]_vars

\* the Planner raised: the run is over and only Analyzer and Planner were called
C9_Witness ==
  \E j \in JobIds :
    /\ pc[j] = "returned"
    /\ caught[j].at = "plan_furniture_placement"
    /\ calls[j] = <<"analyze_room", "plan_furniture_placement">>

\* C10: a run writes to object storage if and only if it ends with the job
\* completed, and then once, under the key of the job id.
C10_UploadIffCompleted ==
  \A j \in JobIds :
    /\ Len(uploads[j]) <= 1
    /\ RunOver(j) => (uploads[j] # <<>> <=> db[j].status = "completed")

\* C10 amended: at most one write, under the key of the job id, made only
\* after all four stages returned; a run whose final commit returned has made
\* it and left the job completed; a run in which a stage raised issues no
\* upload and one in which the upload raised has no write returned; a run
\* that ends otherwise after the write is one whose final commit raised.
C10_UploadOnceOnSuccessPath ==
  \A j \in JobIds :
    /\ Len(uploads[j]) <= 1
    /\ \A i \in 1..Len(uploads[j]) : uploads[j][i] = <<"results", <<j, ".jpg">>>>
    /\ uploads[j] # <<>> =>
         /\ calls[j] = StageOrder
         /\ locals[j].image_data # NoText
         /\ uploads[j][1] \in objects
    /\ (RunOver(j) /\ RecordFound(j) /\ caught[j] = NoCatch /\ escaped[j] = "none") =>
         /\ uploads[j] # <<>>
         /\ db[j].status = "completed"
         /\ db[j].result_url = <<"results", <<j, ".jpg">>>>
    /\ caught[j].at \in StageCalls \ {"upload_file"} =>
         /\ Len(calls[j]) <= 4
         /\ uploads[j] = <<>>
    /\ caught[j].at = "upload_file" => uploads[j] = <<>>
    /\ (RunOver(j) /\ uploads[j] # <<>> /\ caught[j] # NoCatch) =>
         /\ caught[j].at = "commit_done"
         /\ db[j].status # "completed"

\* the object is stored but the final commit raised and the job ends in error
C10_Witness ==
  \E j \in JobIds :
    /\ pc[j] = "returned"
    /\ uploads[j] = <<<<"results", <<j, ".jpg">>>>>>
    /\ caught[j].at = "commit_done"
    /\ db[j].status = "error"

\* the stage progression table
ProgressRows ==
  << <<10, "Analyzing room layout...">>,
     <<30, "Detecting surfaces and depth...">>,
     <<60, "Generating furniture placement plan...">>,
     <<80, "Rendering final image...">>,
     <<100, "Final rendering complete">> >>
RowOf(job) == <<job.progress_percent, job.current_step>>

\* C11: once a run has started a job, (progress_percent, current_step) is a
\* row of the stage progression table: on db_job the row of the latest stage
\* that completed (or the committed row, when the session lost the update of
\* a failed commit), in the committed record that row or the one before it,
\* and while a stage call is outstanding the row of the stage before it.
C11_StepMatchesProgress ==
  \A j \in JobIds :
    (runs[j] > 0 /\ RecordFound(j)) =>
      /\ \E k \in 1..5 : RowOf(sess[j]) = ProgressRows[k]
      /\ RowOf(sess[j]) \in {ProgressRows[Len(written[j])], RowOf(db[j])}
      /\ db[j].status # "pending" => \E k \in 1..5 : RowOf(db[j]) = ProgressRows[k]
      /\ Len(calls[j]) >= 1 =>
           \E k \in {Len(written[j]) - 1, Len(written[j])} :
             k >= 1 /\ RowOf(db[j]) = ProgressRows[k]
      /\ pc[j] \in StageCalls =>
           /\ RowOf(db[j]) = ProgressRows[Len(written[j])]
           /\ RowOf(sess[j]) = RowOf(db[j])
      /\ (pc[j] = "returned" /\ caught[j] = NoCatch) =>
           RowOf(db[j]) = ProgressRows[5]

\* the Synthesizer returned: db_job shows (80, Rendering final image...) and
\* the committed record still (60, Generating furniture placement plan...)
C11_Witness ==
  \E j \in JobIds :
    /\ pc[j] = "commit_80"
    /\ RowOf(sess[j]) = <<80, "Rendering final image...">>
    /\ RowOf(db[j]) = <<60, "Generating furniture placement plan...">>

\* the exceptions generate_image raises for a response without an image
NoImageErrors == {"No choices in response", "ValueError"}

\* C12: when the provider's response carries no images entry on
\* choices[0].message, or no choices, generate_image raises, and the run of
\* process_staging_job ends with the job in status error without a result_url
C12_NoImageEndsInError ==
  \A j \in JobIds :
    (/\ RunOver(j)
     /\ caught[j].at = "generate_image"
     /\ caught[j].e \in NoImageErrors) =>
      /\ db[j].status = "error"
      /\ db[j].result_url = NoUrl

\* part occurs once in the prompt when on holds, and not at all otherwise
OnceIff(prompt, part, on) == Count(prompt, part) = (IF on THEN 1 ELSE 0)

\* C13: for every combination of the two flags the instructions carry exactly
\* one wall-decor branch and one white-balance branch, the one the flag
\* selects: the Planner's and the Synthesizer's prompt the decor branch of
\* wall_decorations, the Synthesizer's prompt the white-balance branch of
\* fix_white_balance, and the Renderer's text the preservation directive
\* exactly when fix_white_balance is false
C13_OneBranchPerFlag ==
  /\ llm.op = "plan_furniture_placement" =>
       /\ OnceIff(llm.prompt, Part(PLAN_DECOR), llm.wall_decorations)
       /\ OnceIff(llm.prompt, Part(PLAN_NO_DECOR), ~llm.wall_decorations)
  /\ llm.op = "generate_staged_image_prompt" =>
       /\ OnceIff(llm.prompt, Part(ADD_DECOR), llm.wall_decorations)
       /\ OnceIff(llm.prompt, Part(BARE_WALLS), ~llm.wall_decorations)
       /\ OnceIff(llm.prompt, Part(WB_CORRECT), llm.fix_white_balance)
       /\ OnceIff(llm.prompt, Part(WB_PRESERVE), ~llm.fix_white_balance)
  /\ llm.op = "generate_image" =>
       OnceIff(llm.text, Part(RENDER_WB_PRESERVE), ~llm.fix_white_balance)

C13_Witness ==
  /\ llm.op = "generate_staged_image_prompt"
  /\ llm.fix_white_balance
  /\ ~llm.wall_decorations
  /\ Part(BARE_WALLS) \in Parts(llm.prompt)
  /\ Part(WB_CORRECT) \in Parts(llm.prompt)

\* everything the model keeps for job k
JobState(k) ==
  <<db[k], sess[k], pc[k], locals[k], caught[k], escaped[k], calls[k],
    written[k], commits[k], uploads[k], runs[k], sent[k]>>

\* C14: runs for distinct job ids are independent under every interleaving:
\* a step of the run for one job leaves every other job's record, session and
\* run state as they are, stores no object but that job's own and leaves the
\* images table alone; and each job keeps its own guarantees while others
\* run: its persisted progress does not decrease within a run and a terminal
\* status its run has committed stays
C14_JobsIndependent ==
  /\ [][\E j \in JobIds :
          /\ \A k \in JobIds \ {j} : JobState(k)' = JobState(k)
          /\ objects' \subseteq objects \cup {<<BUCKET_RESULTS, ObjectName(j)>>}
          /\ images' = images]_vars
  /\ [][\A j \in JobIds :
          (SameRun(j) /\ pc[j] # "commit_start") =>
            /\ db'[j].progress_percent >= db[j].progress_percent
            /\ db[j].status \in Terminal => db'[j].status = db[j].status]_vars

\* two runs in flight at different stages, a third job already completed
C14_Witness ==
  /\ pc[1] = "generate_image"
  /\ pc[2] = "commit_30"
  /\ sess[2] # db[2]
  /\ db[1].progress_percent = 80

\* the requests a run has posted to the image provider
Requests(j) ==
  {sent[j][i] : i \in {n \in DOMAIN sent[j] : sent[j][n].stage = "openrouter"}}
\* the source image of job j as the run fetches it
SourceOf(j) == ContentAt(images[sess[j].image_id].original_url)

\* C15: a source image whose bytes cannot be decoded does not fail the
\* pipeline: the request to the provider carries the fetched bytes unmodified
\* as image/jpeg, its text has no output-resolution directive, and the run
\* can end in status completed
C15_UndecodableNotFatal ==
  \A j \in JobIds :
    (RecordFound(j) /\ ~SourceOf(j).decodable) =>
      /\ EncodeImage(SourceOf(j)) =
           [media_type |-> "image/jpeg", image_base64 |-> Base64(SourceOf(j)),
            width |-> 0, height |-> 0]
      /\ \A r \in Requests(j) :
           /\ r.image = <<"image/jpeg", Base64(SourceOf(j))>>
           /\ \A part \in Parts(r.text) : part.text # RESOLUTION

\* the run for a job with an undecodable source image completed
C15_Witness ==
  \E j \in JobIds :
    /\ RecordFound(j)
    /\ ~SourceOf(j).decodable
    /\ Requests(j) # {}
    /\ pc[j] = "returned"
    /\ db[j].status = "completed"
    /\ db[j].progress_percent = 100

\* the HTTP GETs and the storage reads among the reads of a fetch
Gets(io) == {i \in DOMAIN io : io[i][1] = "GET"}
StorageReads(io) == {i \in DOMAIN io : io[i][1] = "get_object_data"}

\* C16: a URL that starts with the internal or the public storage prefix is
\* read from storage by bucket and object name and no HTTP GET is issued for
\* it; every other URL is fetched by exactly one HTTP GET, which fails on a
\* non-success status
C16_PrefixUrlsNeverFetched ==
  llm.op = "_fetch_and_encode_image" =>
    IF TargetPrefix(llm.image_url) # "None"
    THEN /\ Cardinality(StorageReads(llm.io)) = 1
         /\ Gets(llm.io) = {}
    ELSE /\ llm.io = << <<"GET", llm.image_url>> >>
         /\ (llm.raised # "none") = (llm.status # 200)

\* C16 amended: a URL with a storage prefix whose remainder is bucket/object
\* is read from storage first, by that bucket and object name, and an HTTP
\* GET follows only when the read returned nothing; a URL with a storage
\* prefix whose remainder holds no "/" and every other URL are fetched by
\* exactly one HTTP GET with no storage read; a GET that is issued fails on a
\* non-success status, and nothing else fails the fetch
C16_StorageFirstThenGet ==
  llm.op = "_fetch_and_encode_image" =>
    LET url == llm.image_url
        parts == PathParts(url)
    IN /\ IF TargetPrefix(url) # "None" /\ Len(parts) = 2
          THEN /\ llm.io[1] = <<"get_object_data", parts[1], parts[2]>>
               /\ Cardinality(StorageReads(llm.io)) = 1
               /\ (Gets(llm.io) # {}) = ~llm.stored
          ELSE llm.io = << <<"GET", url>> >>
       /\ Cardinality(Gets(llm.io)) <= 1
       /\ \A i \in Gets(llm.io) : llm.io[i] = <<"GET", url>>
       /\ (llm.raised # "none") = (Gets(llm.io) # {} /\ llm.status # 200)
       /\ llm.raised \in {"none", "HTTPStatusError"}

\* a URL on the storage host without an object path was fetched over HTTP
C16_Witness ==
  /\ llm.op = "_fetch_and_encode_image"
  /\ llm.image_url = Url(STORAGE_ENDPOINT, <<"room.png">>)
  /\ llm.io = << <<"GET", llm.image_url>> >>
  /\ llm.raised = "none"

\* the resolution directives in the text of a request
Directives(text) == {part \in Parts(text) : part.text = RESOLUTION}

\* C17: when the source image's dimensions are known the resolution
\* directive generate_image appends states the source image's pixel width
\* and height, also for a source with a dimension above 2160
C17_DirectiveStatesSourceSize ==
  (llm.op = "generate_image" /\ llm.content.decodable) =>
    Directives(llm.text) =
      {ResolutionDirective(llm.content.width, llm.content.height)}

\* C17 amended: the directive states the width and height that
\* _fetch_and_encode_image returned, which is the size of the image sent to
\* the provider: the source's size when both sides are at most 2160, the
\* size after the downscale to 2160 otherwise; no directive is appended when
\* that size is (0, 0)
C17_DirectiveStatesSentSize ==
  llm.op = "generate_image" =>
    LET enc == llm.encoded
        src == llm.content
    IN /\ Directives(llm.text) =
            IF enc.width > 0 /\ enc.height > 0
            THEN {ResolutionDirective(enc.width, enc.height)} ELSE {}
       /\ Cardinality(Directives(llm.text)) = Count(llm.text, ResolutionDirective(enc.width, enc.height))
       /\ (enc.width > 0 /\ enc.height > 0) =>
            /\ B64Decode(enc.image_base64).width = enc.width
            /\ B64Decode(enc.image_base64).height = enc.height
            /\ (src.width <= MAX_DIM /\ src.height <= MAX_DIM) =>
                 <<enc.width, enc.height>> = <<src.width, src.height>>
            /\ (src.width > MAX_DIM \/ src.height > MAX_DIM) =>
                 /\ <<enc.width, enc.height>> = Thumbnail(src.width, src.height)
                 /\ enc.width <= MAX_DIM /\ enc.height <= MAX_DIM

\* a 4000x3000 source: the directive asks for 2160x1620
C17_Witness ==
  /\ llm.op = "generate_image"
  /\ llm.content = Picture("PNG", 4000, 3000)
  /\ Directives(llm.text) = {ResolutionDirective(2160, 1620)}

\* the sides (rw, rh) keep the aspect ratio of (w, h) within one pixel
SameAspect(w, h, rw, rh) ==
  IF w >= h THEN Abs(rh * w - rw * h) <= w
  ELSE Abs(rw * h - rh * w) <= h

\* C18: for a decodable image _fetch_and_encode_image returns the input's
\* width, height and bytes when both dimensions are at most 2160; when one
\* exceeds 2160 it returns dimensions whose larger side is exactly 2160 and
\* whose aspect ratio is the input's within one pixel; the media type is
\* image/png for PNG, image/webp for WEBP and image/jpeg otherwise
C18_KeepsOrCapsAt2160 ==
  (/\ llm.op = "_fetch_and_encode_image"
   /\ llm.raised = "none"
   /\ llm.content.decodable) =>
    LET src == llm.content
        res == llm.result
    IN /\ res.media_type = MediaType(src.format)
       /\ IF src.width <= MAX_DIM /\ src.height <= MAX_DIM
          THEN /\ <<res.width, res.height>> = <<src.width, src.height>>
               /\ res.image_base64 = Base64(src)
          ELSE /\ Max(res.width, res.height) = MAX_DIM
               /\ SameAspect(src.width, src.height, res.width, res.height)

\* C19: the success markers of a job agree in every persisted state: status
\* is completed iff progress_percent is 100 iff completed_at is set iff
\* result_url is set
C19_SuccessMarkersAgree ==
  \A j \in JobIds :
    LET done == db[j].status = "completed"
    IN /\ done = (db[j].progress_percent = 100)
       /\ done = (db[j].completed_at # NoTime)
       /\ done = (db[j].result_url # NoUrl)

\* the parameters of a job record
Params(job) ==
  <<job.room_type, job.style_preset, job.fix_white_balance,
    job.wall_decorations, job.image_id>>
\* the argument records of the calls of one stage in the run of job j
ArgsOf(j, stage) ==
  {sent[j][i] : i \in {n \in DOMAIN sent[j] : sent[j][n].stage = stage}}

\* C20: process_staging_job never writes the job's parameters nor the
\* image's original_url, so every stage of a run receives the job's flag
\* values and the image's URL: the Planner and the Synthesizer the same
\* wall_decorations, the Synthesizer and the Renderer the same
\* fix_white_balance, the Analyzer, the Synthesizer and the Renderer the
\* same URL
C20_ParametersNeverWritten ==
  /\ images = [i \in ImageIds |-> ImageRow(i)]
  /\ \A j \in JobIds :
       /\ Params(db[j]) = Params(PendingJob(j))
       /\ Params(sess[j]) = Params(PendingJob(j))
       /\ \A a \in ArgsOf(j, "plan_furniture_placement") :
            /\ a.wall_decorations = db[j].wall_decorations
            /\ a.room_type = db[j].room_type
            /\ a.style_preset = db[j].style_preset
       /\ \A a \in ArgsOf(j, "generate_staged_image_prompt") :
            /\ a.wall_decorations = db[j].wall_decorations
            /\ a.fix_white_balance = db[j].fix_white_balance
            /\ a.style_preset = db[j].style_preset
            /\ a.image_url = images[db[j].image_id].original_url
       /\ \A a \in ArgsOf(j, "generate_image") :
            /\ a.fix_white_balance = db[j].fix_white_balance
            /\ a.image_url = images[db[j].image_id].original_url
       /\ \A a \in ArgsOf(j, "analyze_room") :
            a.image_url = images[db[j].image_id].original_url

\* the run of a job with fix_white_balance off has called all four stages
C20_Witness ==
  \E j \in JobIds :
    /\ ~db[j].fix_white_balance
    /\ db[j].wall_decorations
    /\ ArgsOf(j, "analyze_room") # {}
    /\ ArgsOf(j, "plan_furniture_placement") # {}
    /\ ArgsOf(j, "generate_staged_image_prompt") # {}
    /\ ArgsOf(j, "generate_image") # {}

====
